---- MODULE Spec2Model ----
(***************************************************************************)
(* FlowWatch: the otelHelper package (one-time setup of the OTLP trace     *)
(* exporter, the shutdown registry) and the loggingHelper package (the     *)
(* logger singleton and its three logrus hooks).                           *)
(*                                                                         *)
(* Goroutines are the processes of Procs.  Every exported function is a    *)
(* sequence of steps of one goroutine; the steps of different goroutines   *)
(* interleave.  os.Exit (log.Fatal, log.Fatalf, logrus Fatal) ends the     *)
(* whole process: no action is enabled once exited # "no".                 *)
(***************************************************************************)
EXTENDS Integers, Sequences, FiniteSets, TLC

\* ------------------------------------------------------------------ bounds
MaxOps == 3     \* top-level calls made by all goroutines together
MaxFuncs == 3   \* registry length explored by SpecShutdown

\* The goroutines that call into the library.
Procs == {"g1", "g2"}

VARIABLES
    pc,            \* pc[p]: where goroutine p stands
    ops,           \* number of top-level calls started so far
    exited,        \* "no", or why the process ended
    stdlog,        \* messages written with the standard library's log package
    once,          \* otelHelper.once: "fresh", "running", "done"
    shutdownFuncs, \* otelHelper.shutdownFuncs: sequence of registered closures
    tlsEnv,        \* value of OTEL_SUPPORT_TLS as read by initOtelHelper
    supportTLS,    \* local of initOtelHelper after strconv.ParseBool
    opts,          \* exporter options built by initTraceProvider
    exporterNews,  \* number of calls of otlptracegrpc.New
    providers,     \* number of calls of trace.NewTracerProvider
    tpErr,         \* value returned by initTraceProvider to initOtelHelper
    setupReturned, \* whether a SetupOtelHelper call has returned
    drain,         \* drain[p]: the Shutdown call goroutine p is in
    invoked,       \* invoked[f]: how often registered closure f was called
    loggerOnce,    \* loggingHelper.once: "fresh", "running", "done"
    logHelper,     \* loggingHelper.logHelper: 0 is nil, else the instance
    loggerBuilds,  \* number of runs of initLogHelper
    loggerLevel,   \* Logger.Level of the logrus logger
    hooks,         \* Logger.Hooks: logrus level -> hooks in the order added
    returned,      \* every value GetLogHelper has returned
    getCont,       \* getCont[p]: what follows the GetLogHelper call p is in
    calls,         \* calls[p]: stack of logrus entries p is logging
    cur,           \* cur[p]: what the logging call goroutine p is in has done
    spanEvents     \* spanEvents[s]: events recorded on span s

otelVars == <<once, shutdownFuncs, tlsEnv, supportTLS, opts, exporterNews,
              providers, tpErr, setupReturned>>
logVars == <<loggerOnce, logHelper, loggerBuilds, loggerLevel, hooks,
             returned, getCont, calls, cur, spanEvents>>
vars == <<pc, ops, exited, stdlog, otelVars, drain, invoked, logVars>>

\* ------------------------------------------------------------------ errors
\* An error value: msg is the text Error() prints, one token per wrapping
\* layer, outermost first; cause is the text of the innermost error.
Nil == [msg |-> <<>>, cause |-> ""]
New(m) == [msg |-> <<m>>, cause |-> m]
\* pkg/errors.Wrap: nil stays nil, otherwise the message is put in front.
Wrap(e, m) == IF e = Nil THEN Nil ELSE [msg |-> <<m>> \o e.msg, cause |-> e.cause]
\* pkg/errors.Wrap(err1, err2.Error()): the whole text of err2 goes in front.
WrapText(e, text) == IF e = Nil THEN Nil ELSE [msg |-> text \o e.msg, cause |-> e.cause]

\* ---------------------------------------------------------------- ParseBool
TrueStrings == {"1", "t", "T", "TRUE", "true", "True"}
FalseStrings == {"0", "f", "F", "FALSE", "false", "False"}
\* strconv.ParseBool as initOtelHelper uses it: the value and whether it failed.
ParseBool(s) == [val |-> s \in TrueStrings,
                 err |-> s \notin (TrueStrings \cup FalseStrings)]
\* Values of OTEL_SUPPORT_TLS explored; "" is the unset variable.
TLSValues == {"", "false", "true", "1", "yes"}

\* ------------------------------------------------------- shutdown closure
ErrProvider == New("tp.Shutdown failed")
ErrExporter == New("exporter.Shutdown failed")

\* The closure with an early return: the exporter is left alone once the
\* provider has failed.
ShutdownClosureEarlyReturn(tpFails, expFails) ==
    IF tpFails
    THEN [calls |-> <<"tp">>,
          err |-> Wrap(ErrProvider, "Failed to shut down the tracer provider.")]
    ELSE [calls |-> <<"tp", "exporter">>,
          err |-> IF expFails
                  THEN Wrap(ErrExporter, "Failed to shut down the SigNoz exporter.")
                  ELSE Nil]

\* The closure initTraceProvider registers.  tpFails / expFails are the
\* outcomes of tp.Shutdown and sigNozTraceExporter.Shutdown; calls lists the
\* shutdown operations in the order they were attempted.
ShutdownClosure(tpFails, expFails) ==
    LET err1 == IF tpFails
                THEN Wrap(ErrProvider, "Failed to shut down the tracer provider.")
                ELSE Nil
        err2 == IF expFails
                THEN Wrap(ErrExporter, "Failed to shut down the SigNoz exporter.")
                ELSE Nil
    IN  [calls |-> <<"tp", "exporter">>,
         err |-> IF err1 # Nil /\ err2 # Nil THEN WrapText(err1, err2.msg)
                 ELSE IF err1 # Nil THEN err1
                 ELSE err2]

\* ------------------------------------------------------------------ levels
\* loggingHelper.Level
Debug == 0
Info == 1
Warn == 2
Error == 3
Fatal == 4
Levels == {Debug, Info, Warn, Error, Fatal}

\* logrus.Level
PanicLevel == 0
FatalLevel == 1
ErrorLevel == 2
WarnLevel == 3
InfoLevel == 4
DebugLevel == 5
AllLevels == {PanicLevel, FatalLevel, ErrorLevel, WarnLevel, InfoLevel,
              DebugLevel}

\* Level.getLogrusLevel with the case of Fatal missing.
getLogrusLevelNoFatal(l) ==
    CASE l = Debug -> DebugLevel
      [] l = Info -> InfoLevel
      [] l = Warn -> WarnLevel
      [] l = Error -> ErrorLevel
      [] OTHER -> DebugLevel

\* Level.getLogrusLevel
getLogrusLevel(l) ==
    CASE l = Debug -> DebugLevel
      [] l = Info -> InfoLevel
      [] l = Warn -> WarnLevel
      [] l = Error -> ErrorLevel
      [] l = Fatal -> FatalLevel
      [] OTHER -> DebugLevel

\* Level.String: the name of a severity, letter by letter.
LevelString(l) ==
    CASE l = Debug -> <<"D", "e", "b", "u", "g">>
      [] l = Info -> <<"I", "n", "f", "o">>
      [] l = Warn -> <<"W", "a", "r", "n">>
      [] l = Error -> <<"E", "r", "r", "o", "r">>
      [] l = Fatal -> <<"F", "a", "t", "a", "l">>
      [] OTHER -> <<"U", "n", "k", "n", "o", "w", "n">>

\* logrus Level.String, the text of the "level" attribute, letter by letter
LogrusLevelString(l) ==
    CASE l = PanicLevel -> <<"p", "a", "n", "i", "c">>
      [] l = FatalLevel -> <<"f", "a", "t", "a", "l">>
      [] l = ErrorLevel -> <<"e", "r", "r", "o", "r">>
      [] l = WarnLevel -> <<"w", "a", "r", "n", "i", "n", "g">>
      [] l = InfoLevel -> <<"i", "n", "f", "o">>
      [] l = DebugLevel -> <<"d", "e", "b", "u", "g">>
      [] OTHER -> <<"u", "n", "k", "n", "o", "w", "n">>

\* logrus Logger.IsLevelEnabled
IsLevelEnabled(min, l) == min >= l

\* ------------------------------------------------------------------- hooks
\* The Levels() of the three hooks.
\* The list of LogrusContextHook as logrus.AllLevels.
ContextHookLevelsAll == AllLevels
ContextHookLevels == {DebugLevel, WarnLevel, ErrorLevel, FatalLevel, PanicLevel}
\* The list of LogrusOtelHook with the warning level left out.
OtelHookLevelsNoWarn == {ErrorLevel, FatalLevel, PanicLevel}
OtelHookLevels == {WarnLevel, ErrorLevel, FatalLevel, PanicLevel}
\* The list of LogrusOtelShutdownHook with the fatal level left out.
ShutdownHookLevelsPanicOnly == {PanicLevel}
ShutdownHookLevels == {FatalLevel, PanicLevel}

HookLevels(h) ==
    CASE h = "LogrusContextHook" -> ContextHookLevels
      [] h = "LogrusOtelHook" -> OtelHookLevels
      [] h = "LogrusOtelShutdownHook" -> ShutdownHookLevels

NoHooks == [l \in AllLevels |-> <<>>]
\* logrus Logger.AddHook: the hook is appended to the list of each of its levels.
AddHook(hs, h) ==
    [l \in AllLevels |-> IF l \in HookLevels(h) THEN Append(hs[l], h) ELSE hs[l]]

\* The hooks added with the shutdown hook first.
InitialHooksShutdownFirst ==
    AddHook(AddHook(AddHook(NoHooks, "LogrusOtelShutdownHook"), "LogrusContextHook"),
            "LogrusOtelHook")

\* The hooks initLogHelper adds, in its order.
InitialHooks ==
    AddHook(AddHook(AddHook(NoHooks, "LogrusContextHook"), "LogrusOtelHook"),
            "LogrusOtelShutdownHook")

\* ------------------------------------------------------------- call stack
\* The frames between a caller of LogHelper.Warn (or its siblings) and the
\* Fire of a hook, innermost first.
HookChain == <<"Hook.Fire", "LevelHooks.Fire", "Entry.fireHooks", "Entry.log",
               "Entry.Log", "Entry.Warn", "LogHelper.Warn">>
CallerSkip == 7
\* Frames of the calling program below LogHelper.X that the explored calls
\* have: 0 is a stack on which the lookup finds no frame.
CallerFrames == {0, 1}
\* A lookup that finds no frame on any stack.
CallerNeverOK(skip, depth) == FALSE
\* runtime.Caller(skip) on a stack of depth frames
CallerOK(skip, depth) == skip < depth

\* ---------------------------------------------------------------- strings
\* Texts are sequences of tokens; a number is printed digit by digit.
Digit(d) == CASE d = 0 -> "0" [] d = 1 -> "1" [] d = 2 -> "2" [] d = 3 -> "3"
              [] d = 4 -> "4" [] d = 5 -> "5" [] d = 6 -> "6" [] d = 7 -> "7"
              [] d = 8 -> "8" [] d = 9 -> "9"
RECURSIVE Itoa(_)
\* fmt.Sprintf("%d", n) for n >= 0
Itoa(n) == IF n < 10 THEN <<Digit(n)>> ELSE Itoa(n \div 10) \o <<Digit(n % 10)>>

\* time.Time.Format(time.RFC3339) of the instant t
FormatRFC3339(t) == <<"2006-01-02T15:04:05Z07:00">> \o Itoa(t)

\* entry.Time, in seconds: the explored calls are all made at one instant.
Now == 1700000000

\* attribute.String
AttrString(k, v) == [key |-> k, value |-> v]

\* The file and line runtime.Caller reports for the explored callers.
CallerFile == <<"caller.go">>
CallerLine == 42

\* getAttributeValue of LogrusOtelHook.Fire: a string is copied, an int is
\* printed, everything else gives the default.
getAttributeValue(data, key, defaultValue) ==
    IF key \in DOMAIN data
    THEN CASE data[key].type = "string" -> AttrString(key, data[key].v)
           [] data[key].type = "int" -> AttrString(key, Itoa(data[key].v))
           [] OTHER -> AttrString(key, defaultValue)
    ELSE AttrString(key, defaultValue)

\* The attributes LogrusOtelHook.Fire builds for an entry.
OtelAttributes(e) ==
    << AttrString("msg", e.message),
       AttrString("level", LogrusLevelString(e.level)),
       getAttributeValue(e.data, "file", <<"unknown">>),
       getAttributeValue(e.data, "line", <<"unknown">>),
       AttrString("time", FormatRFC3339(e.time)) >>

\* ------------------------------------------------------------------- spans
\* Span 0 is the no-op span trace.SpanFromContext returns for a context that
\* carries none; its AddEvent does nothing.
Spans == {1}
Contexts == {0} \cup Spans
SpanFromContext(ctx) == ctx
\* addEvent recording on the first span when the context carries none.
addEventAnySpan(events, ctx, attrs) ==
    LET span == IF ctx \in Spans THEN ctx ELSE CHOOSE x \in Spans : TRUE IN
    [events EXCEPT ![span] = Append(@, [name |-> "log", attrs |-> attrs])]

\* addEvent
addEvent(events, ctx, attrs) ==
    LET span == SpanFromContext(ctx) IN
    IF span \in Spans
    THEN [events EXCEPT ![span] = Append(@, [name |-> "log", attrs |-> attrs])]
    ELSE events

NoData == [k \in {} |-> [type |-> "string", v |-> <<>>]]
NoCont == [then |-> "none", arg |-> 0]
NoCall == [level |-> PanicLevel, ctx |-> 0, enabled |-> FALSE, events |-> 0,
           lookups |-> 0, written |-> 0, fired |-> <<>>, afterSetup |-> FALSE,
           drained |-> <<>>, failed |-> FALSE, done |-> FALSE]

NoDrain == [snap |-> <<>>, idx |-> 1, log |-> <<>>, done |-> FALSE, cont |-> "none"]

\* -------------------------------------------------------------------- Init
Init ==
    /\ pc = [p \in Procs |-> "idle"]
    /\ ops = 0
    /\ exited = "no"
    /\ stdlog = {}
    /\ once = "fresh"
    /\ shutdownFuncs = <<>>
    /\ tlsEnv = "<unread>"
    /\ supportTLS = FALSE
    /\ opts = {}
    /\ exporterNews = 0
    /\ providers = 0
    /\ tpErr = Nil
    /\ setupReturned = FALSE
    /\ drain = [p \in Procs |-> NoDrain]
    /\ invoked = [f \in {} |-> 0]
    /\ loggerOnce = "fresh"
    /\ logHelper = 0
    /\ loggerBuilds = 0
    /\ loggerLevel = PanicLevel
    /\ hooks = NoHooks
    /\ returned = {}
    /\ getCont = [p \in Procs |-> NoCont]
    /\ calls = [p \in Procs |-> <<>>]
    /\ cur = [p \in Procs |-> NoCall]
    /\ spanEvents = [s \in Spans |-> <<>>]

Running == exited = "no"
CanCall(p) == Running /\ pc[p] = "idle" /\ ops < MaxOps

\* The entry goroutine p is logging: the top of its stack of entries.
Top(p) == calls[p][Len(calls[p])]
SetTop(p, e) == [calls EXCEPT ![p] = [@ EXCEPT ![Len(@)] = e]]
\* The hook the entry on top of p's stack fires next, "" when none is left.
NextHook(p) ==
    IF calls[p] = <<>> THEN ""
    ELSE LET e == Top(p) IN
         IF e.hookIdx <= Len(hooks[e.level]) THEN hooks[e.level][e.hookIdx] ELSE ""

\* ------------------------------------------------------------------- setup
\* SetupOtelHelper without the once: every call runs initOtelHelper.
SetupOtelHelperNoOnce(p) ==
    /\ CanCall(p)
    /\ ops' = ops + 1
    /\ once' = "running"
    /\ pc' = [pc EXCEPT ![p] = "initOtelHelper"]
    /\ UNCHANGED <<exited, stdlog, shutdownFuncs, tlsEnv, supportTLS, opts,
                   exporterNews, providers, tpErr, setupReturned, drain, invoked,
                   logVars>>

\* SetupOtelHelper: once.Do.  The first caller runs initOtelHelper, a caller
\* arriving while it runs blocks, a caller arriving afterwards returns.
SetupOtelHelper(p) ==
    /\ CanCall(p)
    /\ ops' = ops + 1
    /\ CASE once = "fresh" ->
              /\ once' = "running"
              /\ pc' = [pc EXCEPT ![p] = "initOtelHelper"]
              /\ UNCHANGED setupReturned
         [] once = "running" ->
              /\ pc' = [pc EXCEPT ![p] = "onceWait"]
              /\ UNCHANGED <<once, setupReturned>>
         [] once = "done" ->
              /\ setupReturned' = TRUE
              /\ UNCHANGED <<once, pc>>
    /\ UNCHANGED <<exited, stdlog, shutdownFuncs, tlsEnv, supportTLS, opts,
                   exporterNews, providers, tpErr, drain, invoked, logVars>>

\* initOtelHelper up to the call of initTraceProvider: reads and parses
\* OTEL_SUPPORT_TLS, falling back to false with a warning.
initOtelHelper(p) ==
    /\ Running /\ pc[p] = "initOtelHelper"
    /\ \E v \in TLSValues :
          LET r == ParseBool(v) IN
          /\ tlsEnv' = v
          /\ supportTLS' = IF r.err THEN FALSE ELSE r.val
          /\ stdlog' = IF r.err
                       THEN stdlog \cup {"Failed to parse OTEL_SUPPORT_TLS, using default."}
                       ELSE stdlog
    /\ pc' = [pc EXCEPT ![p] = "initTraceProvider"]
    /\ UNCHANGED <<ops, exited, once, shutdownFuncs, opts, exporterNews,
                   providers, tpErr, setupReturned, drain, invoked, logVars>>

\* initTraceProvider up to the creation of the exporter: log.Fatal when TLS is
\* asked for, otherwise otlptracegrpc.New, which may fail.  Insecure is the
\* condition of its if statement.
InsecureMissingBang(tls) == tls
Insecure(tls) == ~tls
initTraceProvider(p) ==
    /\ Running /\ pc[p] = "initTraceProvider"
    /\ IF ~Insecure(supportTLS)
       THEN /\ exited' = "fatal: TLS is not implemented yet"
            /\ stdlog' = stdlog \cup {"TLS is not implemented yet"}
            /\ UNCHANGED <<pc, opts, exporterNews, tpErr>>
       ELSE /\ opts' = {"WithEndpoint", "WithInsecure"}
            /\ stdlog' = stdlog \cup {"Insecure connection to the collector"}
            /\ exporterNews' = exporterNews + 1
            /\ \E fails \in BOOLEAN :
                  IF fails
                  THEN /\ tpErr' = Wrap(New("otlptracegrpc.New failed"),
                                        "Failed to create OTLP exporter")
                       /\ pc' = [pc EXCEPT ![p] = "initOtelHelperCheck"]
                  ELSE /\ tpErr' = Nil
                       /\ pc' = [pc EXCEPT ![p] = "register"]
            /\ UNCHANGED exited
    /\ UNCHANGED <<ops, once, shutdownFuncs, tlsEnv, supportTLS, providers,
                   setupReturned, drain, invoked, logVars>>

\* The rest of initTraceProvider: the provider is built and made global, the
\* shutdown closure is appended to shutdownFuncs, nil is returned.
registerShutdown(p) ==
    /\ Running /\ pc[p] = "register"
    /\ providers' = providers + 1
    /\ LET f == Len(shutdownFuncs) + 1 IN
          /\ shutdownFuncs' = Append(shutdownFuncs, f)
          /\ invoked' = [g \in DOMAIN invoked \cup {f} |->
                            IF g \in DOMAIN invoked THEN invoked[g] ELSE 0]
    /\ pc' = [pc EXCEPT ![p] = "initOtelHelperCheck"]
    /\ UNCHANGED <<ops, exited, stdlog, once, tlsEnv, supportTLS, opts,
                   exporterNews, tpErr, setupReturned, drain, logVars>>

\* The end of initOtelHelper: log.Fatalf on the error initTraceProvider
\* returned, otherwise return into once.Do.
initOtelHelperCheck(p) ==
    /\ Running /\ pc[p] = "initOtelHelperCheck"
    /\ IF tpErr # Nil
       THEN /\ exited' = "fatal: Failed to set up the trace provider."
            /\ stdlog' = stdlog \cup {"Failed to set up the trace provider."}
            /\ UNCHANGED pc
       ELSE /\ pc' = [pc EXCEPT ![p] = "onceDone"]
            /\ UNCHANGED <<exited, stdlog>>
    /\ UNCHANGED <<ops, otelVars, drain, invoked, logVars>>

\* once.Do returns in the goroutine that ran the initialization.
SetupReturn(p) ==
    /\ Running /\ pc[p] = "onceDone"
    /\ once' = "done"
    /\ setupReturned' = TRUE
    /\ pc' = [pc EXCEPT ![p] = "idle"]
    /\ UNCHANGED <<ops, exited, stdlog, shutdownFuncs, tlsEnv, supportTLS, opts,
                   exporterNews, providers, tpErr, drain, invoked, logVars>>

\* once.Do returns in a goroutine that waited for the initialization.
SetupWaitReturn(p) ==
    /\ Running /\ pc[p] = "onceWait" /\ once = "done"
    /\ setupReturned' = TRUE
    /\ pc' = [pc EXCEPT ![p] = "idle"]
    /\ UNCHANGED <<ops, exited, stdlog, once, shutdownFuncs, tlsEnv, supportTLS,
                   opts, exporterNews, providers, tpErr, drain, invoked, logVars>>

\* ---------------------------------------------------------------- Shutdown
\* Shutdown: the range statement evaluates shutdownFuncs once.
BeginShutdown(p, cont) ==
    drain' = [drain EXCEPT ![p] = [snap |-> shutdownFuncs, idx |-> 1,
                                   log |-> <<>>, done |-> FALSE, cont |-> cont]]

Shutdown(p) ==
    /\ CanCall(p)
    /\ ops' = ops + 1
    /\ BeginShutdown(p, "idle")
    /\ pc' = [pc EXCEPT ![p] = "Shutdown"]
    /\ UNCHANGED <<exited, stdlog, otelVars, invoked, logVars>>

\* No lock guards shutdownFuncs.  A Shutdown that reads the slice while
\* another goroutine is at the append of initTraceProvider races with it: it
\* sees the old slice or the new one (the interleavings of Shutdown and
\* FireShutdownHook with registerShutdown), or a slice header written in part,
\* on which the loop faults.
ShutdownRace(p) ==
    /\ Running
    /\ \/ CanCall(p)
       \/ pc[p] = "fireHooks" /\ NextHook(p) = "LogrusOtelShutdownHook"
    /\ \E q \in Procs \ {p} : pc[q] = "register"
    /\ exited' = "panic: torn read of shutdownFuncs"
    /\ pc' = [pc EXCEPT ![p] = "exited"]
    /\ UNCHANGED <<ops, stdlog, otelVars, drain, invoked, logVars>>

\* The loop of Shutdown leaving at the first error.
ShutdownIterationBreak(d, tpFails, expFails) ==
    LET r == ShutdownClosure(tpFails, expFails) IN
    [d EXCEPT !.idx = IF r.err # Nil THEN Len(d.snap) + 1 ELSE d.idx + 1,
              !.log = Append(d.log, [f |-> d.snap[d.idx],
                                     tpFails |-> tpFails, expFails |-> expFails,
                                     calls |-> r.calls, err |-> r.err,
                                     logged |-> r.err # Nil])]

\* One iteration of the loop of Shutdown: the closure is called and its error,
\* if any, is written with log.Printf.
ShutdownIteration(d, tpFails, expFails) ==
    LET r == ShutdownClosure(tpFails, expFails) IN
    [d EXCEPT !.idx = d.idx + 1,
              !.log = Append(d.log, [f |-> d.snap[d.idx],
                                     tpFails |-> tpFails, expFails |-> expFails,
                                     calls |-> r.calls, err |-> r.err,
                                     logged |-> r.err # Nil])]

ShutdownStep(p) ==
    /\ Running /\ pc[p] = "Shutdown"
    /\ drain[p].idx <= Len(drain[p].snap)
    /\ \E tpFails \in BOOLEAN, expFails \in BOOLEAN :
          LET d == ShutdownIteration(drain[p], tpFails, expFails)
              f == drain[p].snap[drain[p].idx]
          IN  /\ drain' = [drain EXCEPT ![p] = d]
              /\ invoked' = [invoked EXCEPT ![f] = @ + 1]
              /\ stdlog' = IF d.log[Len(d.log)].logged
                           THEN stdlog \cup {"Failed to shut down the service."}
                           ELSE stdlog
    /\ UNCHANGED <<pc, ops, exited, otelVars, logVars>>

\* Shutdown emptying the registry once its loop is through.
ShutdownReturnClears(p) ==
    /\ Running /\ pc[p] = "Shutdown"
    /\ drain[p].idx > Len(drain[p].snap)
    /\ shutdownFuncs' = <<>>
    /\ drain' = [drain EXCEPT ![p] = NoDrain]
    /\ pc' = [pc EXCEPT ![p] = drain[p].cont]
    /\ IF drain[p].cont = "fireHooks"
       THEN cur' = [cur EXCEPT ![p].drained = Append(@, drain[p])]
       ELSE UNCHANGED cur
    /\ UNCHANGED <<ops, exited, stdlog, once, tlsEnv, supportTLS, opts,
                   exporterNews, providers, tpErr, setupReturned, invoked,
                   loggerOnce, logHelper, loggerBuilds, loggerLevel, hooks,
                   returned, getCont, calls, spanEvents>>

\* Shutdown returns to its caller.
ShutdownReturn(p) ==
    /\ Running /\ pc[p] = "Shutdown"
    /\ drain[p].idx > Len(drain[p].snap)
    /\ drain' = [drain EXCEPT ![p] = NoDrain]
    /\ pc' = [pc EXCEPT ![p] = drain[p].cont]
    /\ IF drain[p].cont = "fireHooks"
       THEN cur' = [cur EXCEPT ![p].drained = Append(@, drain[p])]
       ELSE UNCHANGED cur
    /\ UNCHANGED <<ops, exited, stdlog, otelVars, invoked, loggerOnce, logHelper,
                   loggerBuilds, loggerLevel, hooks, returned, getCont, calls, spanEvents>>

\* --------------------------------------------------------------- the logger
\* initLogHelper: a new logrus logger with level Info and the three hooks.
NewLogHelper(n) == [instance |-> n + 1, level |-> InfoLevel, hooks |-> InitialHooks]

\* GetLogHelper without the once: a caller that finds no logHelper builds one.
EnterGetLogHelperNoOnce(p, cont) ==
    /\ getCont' = [getCont EXCEPT ![p] = cont]
    /\ IF logHelper = 0 \/ loggerOnce # "done"
       THEN /\ loggerOnce' = "running"
            /\ pc' = [pc EXCEPT ![p] = "initLogHelper"]
       ELSE /\ pc' = [pc EXCEPT ![p] = "getReturn"]
            /\ UNCHANGED loggerOnce

\* once.Do of GetLogHelper, entered by goroutine p; cont says who called.
EnterGetLogHelper(p, cont) ==
    /\ getCont' = [getCont EXCEPT ![p] = cont]
    /\ CASE loggerOnce = "fresh" ->
              /\ loggerOnce' = "running"
              /\ pc' = [pc EXCEPT ![p] = "initLogHelper"]
         [] loggerOnce = "running" ->
              /\ pc' = [pc EXCEPT ![p] = "logOnceWait"]
              /\ UNCHANGED loggerOnce
         [] loggerOnce = "done" ->
              /\ pc' = [pc EXCEPT ![p] = "getReturn"]
              /\ UNCHANGED loggerOnce

GetLogHelper(p) ==
    /\ CanCall(p)
    /\ ops' = ops + 1
    /\ EnterGetLogHelper(p, [then |-> "return", arg |-> 0])
    /\ UNCHANGED <<exited, stdlog, otelVars, drain, invoked, logHelper,
                   loggerBuilds, loggerLevel, hooks, returned, calls, cur, spanEvents>>

\* SetLogLevel(level): GetLogHelper() first, Logger.SetLevel afterwards.
LevelValues == Levels \cup {Fatal + 1}
SetLogLevel(p, l) ==
    /\ CanCall(p)
    /\ ops' = ops + 1
    /\ EnterGetLogHelper(p, [then |-> "SetLevel", arg |-> l])
    /\ UNCHANGED <<exited, stdlog, otelVars, drain, invoked, logHelper,
                   loggerBuilds, loggerLevel, hooks, returned, calls, cur, spanEvents>>

\* The function once.Do runs for the first caller.
initLogHelper(p) ==
    /\ Running /\ pc[p] = "initLogHelper"
    /\ LET lh == NewLogHelper(loggerBuilds) IN
          /\ logHelper' = lh.instance
          /\ loggerLevel' = lh.level
          /\ hooks' = lh.hooks
    /\ loggerBuilds' = loggerBuilds + 1
    /\ loggerOnce' = "done"
    /\ pc' = [pc EXCEPT ![p] = "getReturn"]
    /\ UNCHANGED <<ops, exited, stdlog, otelVars, drain, invoked,
                   returned, getCont, calls, cur, spanEvents>>

\* GetLogHelper returns logHelper, to the caller or into SetLogLevel.
GetLogHelperReturn(p) ==
    /\ Running
    /\ \/ pc[p] = "getReturn"
       \/ pc[p] = "logOnceWait" /\ loggerOnce = "done"
    /\ returned' = returned \cup {logHelper}
    /\ IF getCont[p].then = "SetLevel"
       THEN loggerLevel' = getLogrusLevel(getCont[p].arg)
       ELSE UNCHANGED loggerLevel
    /\ getCont' = [getCont EXCEPT ![p] = NoCont]
    /\ pc' = [pc EXCEPT ![p] = "idle"]
    /\ UNCHANGED <<ops, exited, stdlog, otelVars, drain, invoked,
                   loggerOnce, logHelper, loggerBuilds, hooks, calls, cur, spanEvents>>

\* ------------------------------------------------------------ logging calls
\* LogHelper.Debug, Info, Warn, Error, Fatal and the logrus level each uses.
Methods == {"Debug", "Info", "Warn", "Error", "Fatal"}
MethodLevel(m) ==
    CASE m = "Debug" -> DebugLevel
      [] m = "Info" -> InfoLevel
      [] m = "Warn" -> WarnLevel
      [] m = "Error" -> ErrorLevel
      [] m = "Fatal" -> FatalLevel

\* below: the frames under the LogHelper method that logs the entry; -1 stands
\* for the stack of the calling program, whose depth the lookup finds out.
NewEntry(lv, ctx, msg, t, below) ==
    [level |-> lv, ctx |-> ctx, message |-> msg, data |-> NoData, time |-> t,
     hookIdx |-> 1, below |-> below]

RECURSIVE TotalEvents(_, _)
TotalEvents(ev, S) ==
    IF S = {} THEN 0
    ELSE LET s == CHOOSE x \in S : TRUE IN Len(ev[s]) + TotalEvents(ev, S \ {s})

\* lh.Logger.WithContext(ctx).<Method>(args...) on a *LogHelper some call of
\* GetLogHelper has returned.  Entry.Log drops the entry when its level is not
\* enabled; Entry.Fatal exits afterwards in any case.
LogHelperLog(p, m, ctx) ==
    /\ CanCall(p)
    /\ returned # {} /\ 0 \notin returned
    /\ ops' = ops + 1
    /\ LET lv == MethodLevel(m)
           on == IsLevelEnabled(loggerLevel, lv)
           call == [NoCall EXCEPT !.level = lv, !.ctx = ctx, !.enabled = on,
                                  !.afterSetup = (once = "done")]
       IN  IF on
           THEN /\ calls' = [calls EXCEPT ![p] =
                               <<NewEntry(lv, ctx, <<"message">>, Now, -1)>>]
                /\ cur' = [cur EXCEPT ![p] = call]
                /\ pc' = [pc EXCEPT ![p] = "fireHooks"]
                /\ UNCHANGED exited
           ELSE /\ cur' = [cur EXCEPT ![p] = [call EXCEPT !.done = TRUE]]
                /\ UNCHANGED calls
                /\ IF lv = FatalLevel
                   THEN /\ exited' = "fatal: logrus Exit(1)"
                        /\ pc' = [pc EXCEPT ![p] = "exited"]
                   ELSE /\ pc' = [pc EXCEPT ![p] = "logReturn"]
                        /\ UNCHANGED exited
    /\ UNCHANGED <<stdlog, otelVars, drain, invoked, loggerOnce,
                   logHelper, loggerBuilds, loggerLevel, hooks, returned, getCont,
                   spanEvents>>

\* logrus LevelHooks.Fire, seen from the entry: after a hook that returned
\* nil the next hook of the level is due, after a hook that returned an error
\* no further hook of the entry fires.
HookReturned(e, err) ==
    IF err THEN [e EXCEPT !.hookIdx = Len(hooks[e.level]) + 1]
    ELSE [e EXCEPT !.hookIdx = @ + 1]

\* LogrusContextHook.Fire handing the failure of the lookup to logrus.
ContextHookErrOnFailure(ok) == ~ok
\* Whether LogrusContextHook.Fire returns an error: nil on both paths.
ContextHookErr(ok) == FALSE

\* LogrusContextHook.Fire: runtime.Caller(7); on failure a Debug entry is
\* logged through GetLogHelper() and nil is returned.
FireContextHook(p) ==
    /\ Running /\ pc[p] = "fireHooks"
    /\ NextHook(p) = "LogrusContextHook"
    /\ \E cf \in (IF Top(p).below = -1 THEN CallerFrames ELSE {Top(p).below}) :
       LET e == Top(p)
           depth == Len(HookChain) + cf
           ok == CallerOK(CallerSkip, depth)
           fired == HookReturned(e, ContextHookErr(ok))
       IN  IF ok
           THEN /\ calls' = SetTop(p, [fired EXCEPT !.data =
                                 [k \in {"file", "line"} |->
                                    IF k = "file"
                                    THEN [type |-> "string", v |-> CallerFile]
                                    ELSE [type |-> "int", v |-> CallerLine]]])
                /\ UNCHANGED returned
                /\ cur' = [cur EXCEPT ![p].lookups = @ + 1,
                                      ![p].fired = Append(@, "LogrusContextHook")]
           ELSE /\ returned' = returned \cup {logHelper}
                /\ cur' = [cur EXCEPT ![p].lookups = @ + 1,
                                      ![p].failed = TRUE,
                                      ![p].fired = Append(@, "LogrusContextHook")]
                /\ IF IsLevelEnabled(loggerLevel, DebugLevel)
                   THEN calls' = [calls EXCEPT ![p] =
                                    Append(SetTop(p, fired)[p],
                                           NewEntry(DebugLevel, e.ctx,
                                                    <<"unable to retrieve the caller information and thus the file and line number">>,
                                                    Now, depth))]
                   ELSE calls' = SetTop(p, fired)
    /\ UNCHANGED <<pc, ops, exited, stdlog, otelVars, drain, invoked,
                   loggerOnce, logHelper, loggerBuilds, loggerLevel, hooks,
                   getCont, spanEvents>>

\* LogrusOtelHook.Fire: the five attributes, then addEvent.
FireOtelHook(p) ==
    /\ Running /\ pc[p] = "fireHooks"
    /\ NextHook(p) = "LogrusOtelHook"
    /\ LET e == Top(p) IN
          /\ spanEvents' = addEvent(spanEvents, e.ctx, OtelAttributes(e))
          /\ calls' = SetTop(p, HookReturned(e, FALSE))
    /\ cur' = [cur EXCEPT ![p].events = @ + TotalEvents(spanEvents', Spans)
                                          - TotalEvents(spanEvents, Spans),
                          ![p].fired = Append(@, "LogrusOtelHook")]
    /\ UNCHANGED <<pc, ops, exited, stdlog, otelVars, drain, invoked,
                   loggerOnce, logHelper, loggerBuilds, loggerLevel, hooks,
                   returned, getCont>>

\* LogrusOtelShutdownHook.Fire: otelHelper.Shutdown(), then nil.
FireShutdownHook(p) ==
    /\ Running /\ pc[p] = "fireHooks"
    /\ NextHook(p) = "LogrusOtelShutdownHook"
    /\ BeginShutdown(p, "fireHooks")
    /\ pc' = [pc EXCEPT ![p] = "Shutdown"]
    /\ calls' = SetTop(p, HookReturned(Top(p), FALSE))
    /\ cur' = [cur EXCEPT ![p].fired = Append(@, "LogrusOtelShutdownHook")]
    /\ UNCHANGED <<ops, exited, stdlog, otelVars, invoked, loggerOnce,
                   logHelper, loggerBuilds, loggerLevel, hooks, returned, getCont, spanEvents>>

\* The hooks of the entry are done: it is written; a nested entry returns
\* into the hook that logged it, a Fatal entry ends the process
\* (Logger.Exit(1)), every other entry returns to the caller.
WriteEntry(p) ==
    /\ Running /\ pc[p] = "fireHooks"
    /\ calls[p] # <<>> /\ NextHook(p) = ""
    /\ calls' = [calls EXCEPT ![p] = SubSeq(@, 1, Len(@) - 1)]
    /\ LET call == [cur[p] EXCEPT !.written = @ + 1] IN
       IF Len(calls[p]) > 1
       THEN /\ cur' = [cur EXCEPT ![p] = call]
            /\ UNCHANGED <<pc, exited>>
       ELSE /\ cur' = [cur EXCEPT ![p] = [call EXCEPT !.done = TRUE]]
            /\ IF Top(p).level = FatalLevel
               THEN /\ exited' = "fatal: logrus Exit(1)"
                    /\ pc' = [pc EXCEPT ![p] = "exited"]
               ELSE /\ pc' = [pc EXCEPT ![p] = "logReturn"]
                    /\ UNCHANGED exited
    /\ UNCHANGED <<ops, stdlog, otelVars, drain, invoked, loggerOnce,
                   logHelper, loggerBuilds, loggerLevel, hooks, returned, getCont,
                   spanEvents>>

\* The logging method returns to its caller.
LogReturn(p) ==
    /\ Running /\ pc[p] = "logReturn"
    /\ cur' = [cur EXCEPT ![p] = NoCall]
    /\ pc' = [pc EXCEPT ![p] = "idle"]
    /\ UNCHANGED <<ops, exited, stdlog, otelVars, drain, invoked, loggerOnce,
                   logHelper, loggerBuilds, loggerLevel, hooks, returned, getCont,
                   calls, spanEvents>>

\* -------------------------------------------------------------------- Next
Next ==
    \E p \in Procs :
        \/ SetupOtelHelper(p)
        \/ initOtelHelper(p)
        \/ initTraceProvider(p)
        \/ registerShutdown(p)
        \/ initOtelHelperCheck(p)
        \/ SetupReturn(p)
        \/ SetupWaitReturn(p)
        \/ Shutdown(p)
        \/ ShutdownRace(p)
        \/ ShutdownStep(p)
        \/ ShutdownReturn(p)
        \/ GetLogHelper(p)
        \/ \E l \in LevelValues : SetLogLevel(p, l)
        \/ initLogHelper(p)
        \/ GetLogHelperReturn(p)
        \/ \E m \in Methods, ctx \in Contexts : LogHelperLog(p, m, ctx)
        \/ FireContextHook(p)
        \/ FireOtelHook(p)
        \/ FireShutdownHook(p)
        \/ WriteEntry(p)
        \/ LogReturn(p)

Spec == Init /\ [][Next]_vars

\* The calls made one after the other: a call starts and proceeds only while
\* no other goroutine is inside a call.
Alone(p) == \A q \in Procs \ {p} : pc[q] = "idle"
NextSeq ==
    \E p \in Procs :
        \/ Alone(p) /\ SetupOtelHelper(p)
        \/ Alone(p) /\ initOtelHelper(p)
        \/ Alone(p) /\ initTraceProvider(p)
        \/ Alone(p) /\ registerShutdown(p)
        \/ Alone(p) /\ initOtelHelperCheck(p)
        \/ Alone(p) /\ SetupReturn(p)
        \/ Alone(p) /\ Shutdown(p)
        \/ Alone(p) /\ ShutdownStep(p)
        \/ Alone(p) /\ ShutdownReturn(p)
        \/ Alone(p) /\ GetLogHelper(p)
        \/ Alone(p) /\ \E l \in LevelValues : SetLogLevel(p, l)
        \/ Alone(p) /\ initLogHelper(p)
        \/ Alone(p) /\ GetLogHelperReturn(p)
        \/ Alone(p) /\ \E m \in Methods, ctx \in Contexts : LogHelperLog(p, m, ctx)
        \/ Alone(p) /\ FireContextHook(p)
        \/ Alone(p) /\ FireOtelHook(p)
        \/ Alone(p) /\ FireShutdownHook(p)
        \/ Alone(p) /\ WriteEntry(p)
        \/ Alone(p) /\ LogReturn(p)

SpecSeq == Init /\ [][NextSeq]_vars

\* Shutdown on a registry of any length up to MaxFuncs: the loop of Shutdown
\* is a function of the slice it ranges over, and the package may register
\* further closures the way initTraceProvider registers its own.
InitShutdown ==
    /\ Init!1 /\ Init!2 /\ Init!3 /\ Init!4
    /\ once = "done"
    /\ \E n \in 0..MaxFuncs :
          /\ shutdownFuncs = [i \in 1..n |-> i]
          /\ invoked = [f \in 1..n |-> 0]
          /\ exporterNews = n
          /\ providers = n
    /\ tlsEnv = "false"
    /\ supportTLS = FALSE
    /\ opts = {"WithEndpoint", "WithInsecure"}
    /\ tpErr = Nil
    /\ setupReturned = TRUE
    /\ drain = [p \in Procs |-> NoDrain]
    /\ loggerOnce = "fresh"
    /\ logHelper = 0
    /\ loggerBuilds = 0
    /\ loggerLevel = PanicLevel
    /\ hooks = NoHooks
    /\ returned = {}
    /\ getCont = [p \in Procs |-> NoCont]
    /\ calls = [p \in Procs |-> <<>>]
    /\ cur = [p \in Procs |-> NoCall]
    /\ spanEvents = [s \in Spans |-> <<>>]

NextShutdown ==
    \E p \in Procs :
        \/ Shutdown(p)
        \/ ShutdownStep(p)
        \/ ShutdownReturn(p)

SpecShutdown == InitShutdown /\ [][NextShutdown]_vars

\* The logging package alone, under the scheduler of the Go runtime: a
\* goroutine that is inside a logging call and can take its next step (the
\* next hook of its entry, the write of the entry, the return) takes it.
\* The registry is empty, the loop of the Shutdown a Fatal entry runs has no
\* iteration.
LogProgress(p) ==
    \/ FireContextHook(p)
    \/ FireOtelHook(p)
    \/ WriteEntry(p)
    \/ LogReturn(p)
NextLog ==
    \E p \in Procs :
        \/ GetLogHelper(p)
        \/ \E l \in LevelValues : SetLogLevel(p, l)
        \/ initLogHelper(p)
        \/ GetLogHelperReturn(p)
        \/ \E m \in Methods, ctx \in Contexts : LogHelperLog(p, m, ctx)
        \/ FireContextHook(p)
        \/ FireOtelHook(p)
        \/ FireShutdownHook(p)
        \/ ShutdownReturn(p)
        \/ WriteEntry(p)
        \/ LogReturn(p)
SpecLog ==
    Init /\ [][NextLog]_vars /\ \A p \in Procs : WF_vars(LogProgress(p))

\* ================================================================== claims
InitPcs == {"initOtelHelper", "initTraceProvider", "register",
            "initOtelHelperCheck", "onceDone"}

\* C1: however many calls of SetupOtelHelper are made, one after the other or
\* from several goroutines at once, the exporter and the provider are built at
\* most once and at most one closure is registered; once a call has returned,
\* exactly one exporter and one provider have been built, exactly one closure
\* is registered and no goroutine is still inside the initialization.
SetupExactlyOnce ==
    /\ exporterNews <= 1 /\ providers <= 1 /\ Len(shutdownFuncs) <= 1
    /\ Cardinality({p \in Procs : pc[p] \in InitPcs}) <= 1
    /\ setupReturned =>
          /\ once = "done"
          /\ exporterNews = 1 /\ providers = 1 /\ Len(shutdownFuncs) = 1
          /\ \A p \in Procs : pc[p] \notin InitPcs
\* A call has returned while another call, made during the initialization,
\* is still blocked in once.Do.
SetupConcurrentWitness ==
    setupReturned /\ \E p \in Procs : pc[p] = "onceWait"

\* C2: over any sequence of SetupOtelHelper, Shutdown and Fatal calls every
\* registered closure is called at most once, and never before the setup has
\* completed.
TeardownAtMostOnce ==
    \A f \in DOMAIN invoked :
        /\ invoked[f] <= 1
        /\ invoked[f] >= 1 => once = "done"

\* C3: a call of Shutdown calls the closures of the registry in the order of
\* the registry, each once; an error a closure returns is logged and the
\* closures after it are still called.
ShutdownDrainsInOrder ==
    \A p \in Procs :
        pc[p] = "Shutdown" =>
            LET d == drain[p] IN
            /\ d.snap = shutdownFuncs
            /\ d.idx = Len(d.log) + 1
            /\ d.idx <= Len(d.snap) + 1
            /\ \A i \in 1..Len(d.log) :
                  /\ d.log[i].f = shutdownFuncs[i]
                  /\ d.log[i].err # Nil =>
                        /\ d.log[i].logged
                        /\ "Failed to shut down the service." \in stdlog
\* The loop is through a registry of at least two closures, the first of which
\* failed.
ShutdownDrainWitness ==
    \E p \in Procs :
        /\ pc[p] = "Shutdown"
        /\ Len(drain[p].snap) >= 2
        /\ drain[p].idx > Len(drain[p].snap)
        /\ drain[p].log[1].err # Nil
        /\ Len(drain[p].log) = Len(drain[p].snap)

\* C4: when the creation of the exporter fails, the setup hands a wrapped
\* error to its caller and does not end the process, and no closure is
\* registered.
ExporterFailureReturnsError ==
    /\ tpErr # Nil => shutdownFuncs = <<>>
    /\ exited # "fatal: Failed to set up the trace provider."

\* The closures a drain has called, in the order of the calls.
Called(d) == [i \in 1..Len(d.log) |-> d.log[i].f]

\* C5: when the process ends through a Fatal log call made after the setup has
\* completed, the shutdown hook of that call has run Shutdown to its end, and
\* that Shutdown has called every closure of the registry.
FatalDrainsBeforeExit ==
    \A p \in Procs :
        (pc[p] = "exited" /\ exited = "fatal: logrus Exit(1)" /\ cur[p].afterSetup)
        => /\ Len(cur[p].drained) = 1
           /\ shutdownFuncs # <<>>
           /\ Called(cur[p].drained[1]) = shutdownFuncs
FatalDrainWitness ==
    \E p \in Procs :
        /\ pc[p] = "exited" /\ exited = "fatal: logrus Exit(1)"
        /\ cur[p].afterSetup
        /\ cur[p].fired = <<"LogrusContextHook", "LogrusOtelHook",
                            "LogrusOtelShutdownHook">>

WarnOrAbove(lv) == lv \in {WarnLevel, ErrorLevel, FatalLevel}
\* An event named "log" with the attributes msg, level, file, line and time,
\* the time printed in the RFC3339 layout.
WellFormedEvent(ev) ==
    /\ ev.name = "log"
    /\ Len(ev.attrs) = 5
    /\ [i \in 1..5 |-> ev.attrs[i].key] = <<"msg", "level", "file", "line", "time">>
    /\ ev.attrs[1].value = <<"message">>
    /\ ev.attrs[2].value \in {<<"w", "a", "r", "n", "i", "n", "g">>,
                               <<"e", "r", "r", "o", "r">>,
                               <<"f", "a", "t", "a", "l">>}
    /\ ev.attrs[3].value \in {<<"caller.go">>, <<"unknown">>}
    /\ ev.attrs[4].value \in {<<"4", "2">>, <<"unknown">>}
    /\ ev.attrs[5].value[1] = "2006-01-02T15:04:05Z07:00"
AllEventsWellFormed ==
    \A s \in Spans : \A i \in 1..Len(spanEvents[s]) : WellFormedEvent(spanEvents[s][i])

\* C6, as stated: every log call at Warn, Error or Fatal whose context carries
\* a span records exactly one event on it, named "log", with the attributes
\* message, level, file, line and an RFC3339 time.
EveryWarnCallAddsOneEvent ==
    /\ AllEventsWellFormed
    /\ \A p \in Procs :
          (cur[p].done /\ WarnOrAbove(cur[p].level) /\ cur[p].ctx \in Spans)
          => cur[p].events = 1
\* C6, amended: the same for the calls whose severity is at or above the
\* minimum severity of the logger at the time of the call.
EnabledWarnCallAddsOneEvent ==
    /\ AllEventsWellFormed
    /\ \A p \in Procs :
          (cur[p].done /\ cur[p].enabled /\ WarnOrAbove(cur[p].level)
             /\ cur[p].ctx \in Spans)
          => cur[p].events = 1
WarnEventWitness ==
    \E p \in Procs :
        /\ cur[p].done /\ cur[p].enabled
        /\ cur[p].level = WarnLevel /\ cur[p].ctx \in Spans
        /\ cur[p].events = 1
        /\ spanEvents[cur[p].ctx] # <<>>

\* C7, as stated: a log call at Warn, Error or Fatal whose context carries no
\* span ends without an error, records no event on any span, and its entry is
\* written.
NoSpanNoEventStillWritten ==
    \A p \in Procs :
        (cur[p].done /\ WarnOrAbove(cur[p].level) /\ cur[p].ctx \notin Spans)
        => /\ cur[p].events = 0
           /\ cur[p].written >= 1
\* C7, amended: such a call records no event; its entry is written exactly
\* when its severity is at or above the minimum severity of the logger.
NoSpanNoEventWrittenIfEnabled ==
    \A p \in Procs :
        (cur[p].done /\ WarnOrAbove(cur[p].level) /\ cur[p].ctx \notin Spans)
        => /\ cur[p].events = 0
           /\ cur[p].written >= 1 <=> cur[p].enabled
NoSpanWitness ==
    \E p \in Procs :
        /\ cur[p].done /\ cur[p].enabled
        /\ WarnOrAbove(cur[p].level) /\ cur[p].ctx \notin Spans
        /\ cur[p].fired = <<"LogrusContextHook", "LogrusOtelHook">>
        /\ cur[p].written = 1

ProviderText == <<"Failed to shut down the tracer provider.", "tp.Shutdown failed">>
ExporterText == <<"Failed to shut down the SigNoz exporter.", "exporter.Shutdown failed">>
\* C8: the registered closure attempts the shutdown of the provider and then
\* that of the exporter, whatever the first gave; it returns nil when both
\* succeed, the wrapped error of the one that failed when one fails, and one
\* error naming both failures when both fail.
ClosureCombinesErrors ==
    \A p \in Procs : \A i \in 1..Len(drain[p].log) :
        LET x == drain[p].log[i] IN
        /\ x.calls = <<"tp", "exporter">>
        /\ (~x.tpFails /\ ~x.expFails) => x.err = Nil
        /\ (x.tpFails /\ ~x.expFails) =>
              x.err = [msg |-> ProviderText, cause |-> "tp.Shutdown failed"]
        /\ (~x.tpFails /\ x.expFails) =>
              x.err = [msg |-> ExporterText, cause |-> "exporter.Shutdown failed"]
        /\ (x.tpFails /\ x.expFails) =>
              x.err = [msg |-> ExporterText \o ProviderText,
                       cause |-> "tp.Shutdown failed"]
ClosureBothFailWitness ==
    \E p \in Procs : \E i \in 1..Len(drain[p].log) :
        /\ drain[p].log[i].tpFails /\ drain[p].log[i].expFails
        /\ setupReturned

TLSWarning == "Failed to parse OTEL_SUPPORT_TLS, using default."
\* C9: with OTEL_SUPPORT_TLS unset, "false" or unparsable the setup goes on
\* with an insecure transport (and has logged a warning for the unparsable
\* value); with a value that parses to true the process ends before an
\* exporter is built and before a closure is registered.
TLSDecidesSetup ==
    /\ tlsEnv \in {"true", "1"} =>
          /\ exporterNews = 0 /\ providers = 0 /\ shutdownFuncs = <<>>
          /\ ~setupReturned
          /\ \A p \in Procs : pc[p] \in InitPcs => pc[p] = "initTraceProvider"
          /\ TLSWarning \notin stdlog
    /\ tlsEnv \in {"", "false", "yes"} =>
          /\ exited # "fatal: TLS is not implemented yet"
          /\ exporterNews > 0 => "WithInsecure" \in opts
          /\ (\E p \in Procs : pc[p] \in InitPcs \ {"initTraceProvider"}) =>
                exporterNews = 1
          /\ tlsEnv = "yes" => TLSWarning \in stdlog
          /\ tlsEnv = "false" => TLSWarning \notin stdlog
    /\ exited = "fatal: TLS is not implemented yet" => tlsEnv \in {"true", "1"}
TLSUnparsableWitness ==
    tlsEnv = "yes" /\ setupReturned /\ "WithInsecure" \in opts

\* C10: every call of GetLogHelper, whatever the interleaving of the first
\* calls, returns the same logger, never nil, and the logger is built, its
\* hooks added, once.
LoggerSingleton ==
    /\ 0 \notin returned
    /\ Cardinality(returned) <= 1
    /\ loggerBuilds <= 1
    /\ returned # {} =>
          /\ returned = {logHelper}
          /\ loggerBuilds = 1 /\ loggerOnce = "done"
          /\ hooks[FatalLevel] = <<"LogrusContextHook", "LogrusOtelHook",
                                   "LogrusOtelShutdownHook">>
          /\ hooks[WarnLevel] = <<"LogrusContextHook", "LogrusOtelHook">>
          /\ hooks[DebugLevel] = <<"LogrusContextHook">>
          /\ hooks[InfoLevel] = <<>>
LoggerConcurrentWitness ==
    /\ returned # {}
    /\ \E p \in Procs : pc[p] = "logOnceWait"

\* The severity, in the order Debug < Info < Warn < Error < Fatal of the
\* package, that a level of the logging library stands for.
Severity(lv) == DebugLevel - lv
\* Goroutine p completes a SetLogLevel call in this step.
SetLevelStep(p) == getCont[p].then = "SetLevel" /\ getCont'[p] = NoCont
\* What a finished logging call did, by whether its level was enabled.
DroppedOrWritten ==
    \A p \in Procs :
        cur[p].done =>
            IF cur[p].enabled
            THEN cur[p].written >= 1
            ELSE /\ cur[p].written = 0 /\ cur[p].fired = <<>>
                 /\ cur[p].lookups = 0 /\ cur[p].events = 0
MinimumSteps ==
    /\ loggerBuilds' # loggerBuilds => Severity(loggerLevel') = Info
    /\ \A p \in Procs :
          (SetLevelStep(p) /\ getCont[p].arg \in Levels)
          => Severity(loggerLevel') = getCont[p].arg
    /\ loggerLevel' # loggerLevel =>
          \/ loggerBuilds' # loggerBuilds
          \/ \E p \in Procs : SetLevelStep(p)
    /\ \A p \in Procs :
          (cur[p] = NoCall /\ cur'[p] # NoCall)
          => (cur'[p].enabled <=> Severity(cur'[p].level) >= Severity(loggerLevel))

\* C11: the minimum severity of the logger is Info when the logger is built,
\* changes only when a SetLogLevel call completes and is then the level that
\* call was given; a logging call is enabled exactly when its severity is at
\* or above the minimum at the time of the call; a call that is not enabled
\* writes nothing and fires no hook (no call-site lookup, no span event), an
\* enabled call is written.
MinimumSeverityFollowsSetLogLevel ==
    []DroppedOrWritten /\ [][MinimumSteps]_vars
\* With the minimum raised to Error, a Warn call has ended without a trace.
RaisedMinimumDropsWitness ==
    \E p \in Procs :
        /\ loggerLevel = ErrorLevel
        /\ cur[p].done /\ ~cur[p].enabled /\ cur[p].level = WarnLevel
        /\ cur[p].ctx \in Spans

\* C12: a logging call at Info, whatever its context and whatever the minimum
\* severity of the logger, makes no call-site lookup: LogrusContextHook does
\* not fire for it (nor does any other hook).
InfoNeverLooksUp ==
    \A p \in Procs :
        cur[p].level = InfoLevel =>
            /\ cur[p].lookups = 0
            /\ cur[p].fired = <<>>
            /\ \A i \in 1..Len(calls[p]) : "file" \notin DOMAIN calls[p][i].data
\* An Info call with a span in its context has been written while the
\* minimum severity was Debug.
InfoWrittenWitness ==
    \E p \in Procs :
        /\ cur[p].level = InfoLevel /\ cur[p].done /\ cur[p].enabled
        /\ cur[p].ctx \in Spans /\ cur[p].written = 1
        /\ loggerLevel = DebugLevel

\* The hooks that fired in a call, as a set.
Fired(p) == {cur[p].fired[i] : i \in 1..Len(cur[p].fired)}

\* C13: when the call-site lookup fails in LogrusContextHook.Fire, the entry
\* goes on without the fields file and line: the hook returns nil, the other
\* hooks of the entry's level still fire (the trace bridge records its event
\* on the span of the context, the shutdown hook of a Fatal entry runs
\* Shutdown), and the entry is written.
LookupFailureGoesOn ==
    \A p \in Procs :
        cur[p].failed =>
            /\ calls[p] # <<>> => DOMAIN calls[p][1].data = {}
            /\ cur[p].done =>
                  /\ cur[p].written >= 1
                  /\ WarnOrAbove(cur[p].level) =>
                        /\ "LogrusOtelHook" \in Fired(p)
                        /\ cur[p].ctx \in Spans => cur[p].events = 1
                  /\ cur[p].level = FatalLevel =>
                        /\ "LogrusOtelShutdownHook" \in Fired(p)
                        /\ Len(cur[p].drained) = 1
\* A Fatal call with a span in its context whose lookup failed has fired its
\* three hooks and ended the process.
LookupFailureWitness ==
    \E p \in Procs :
        /\ cur[p].failed /\ cur[p].done
        /\ cur[p].level = FatalLevel /\ cur[p].ctx \in Spans
        /\ cur[p].events = 1 /\ Len(cur[p].drained) = 1
        /\ exited = "fatal: logrus Exit(1)"

\* A letter in lower case, a text in lower case.
LowerLetter(c) ==
    CASE c = "D" -> "d" [] c = "I" -> "i" [] c = "W" -> "w" [] c = "E" -> "e"
      [] c = "F" -> "f" [] c = "U" -> "u" [] OTHER -> c
Lower(text) == [i \in 1..Len(text) |-> LowerLetter(text[i])]

\* C14: the five severities map to five different levels of the logging
\* library, and the name the library gives the level a SetLogLevel call has
\* set is, letter case aside, the name of the severity the call was given.
SeverityNameRoundTrip ==
    [][ /\ \A a, b \in Levels : a # b => getLogrusLevel(a) # getLogrusLevel(b)
        /\ \A p \in Procs :
              (SetLevelStep(p) /\ getCont[p].arg \in Levels)
              => LogrusLevelString(loggerLevel') = Lower(LevelString(getCont[p].arg))
      ]_vars

RegistrySteps ==
    /\ shutdownFuncs' # shutdownFuncs =>
          /\ shutdownFuncs = <<>> /\ Len(shutdownFuncs') = 1
          /\ once = "running" /\ ~setupReturned
          /\ \E p \in Procs : pc[p] = "register" /\ pc'[p] # "register"
    /\ \A p \in Procs :
          (setupReturned /\ pc[p] # "Shutdown" /\ pc'[p] = "Shutdown")
          => drain'[p].snap = shutdownFuncs /\ Len(drain'[p].snap) = 1
    /\ \A p \in Procs :
          (pc[p] = "Shutdown" /\ pc'[p] = "Shutdown")
          => /\ drain'[p].snap = drain[p].snap
             /\ \A i \in 1..Len(drain'[p].log) :
                   drain'[p].log[i].f = drain'[p].snap[i]

\* C15: the registry changes in one kind of step only, the append of the
\* setup that the once lets run, which puts one closure into the empty
\* registry; no step of Shutdown, of a repeated SetupOtelHelper or of a logging
\* call changes it, and a Shutdown (called directly or by the shutdown hook)
\* that starts after a SetupOtelHelper call has returned ranges over exactly
\* the registered closure.
RegistryOnlyAppendedBySetup == [][RegistrySteps]_vars
\* A second Shutdown has called the closure the first one had already called:
\* the registry was the same for both.
RegistryKeptWitness ==
    /\ setupReturned
    /\ \E p \in Procs :
          /\ pc[p] = "Shutdown"
          /\ Called(drain[p]) = shutdownFuncs
          /\ \E f \in DOMAIN invoked : invoked[f] = 2

\* Goroutine p is inside a Debug, Info, Warn or Error call.
InLogCall(p) == pc[p] = "fireHooks" /\ cur[p].level # FatalLevel
\* C16: every Debug, Info, Warn or Error call returns, at every minimum
\* severity, unless the process ends meanwhile; the entries a call is logging
\* are never more than two deep and it makes at most two call-site lookups:
\* the Debug entry logged after a failed lookup finds its caller.
LogCallsReturn ==
    /\ [](\A p \in Procs : Len(calls[p]) <= 2 /\ cur[p].lookups <= 2)
    /\ \A p \in Procs : InLogCall(p) ~> (pc[p] = "idle" \/ ~Running)
\* A call whose lookup failed while the minimum severity was Debug is back
\* at its caller's, the nested Debug entry and its own entry written.
NestedDebugWitness ==
    \E p \in Procs :
        /\ pc[p] = "logReturn" /\ cur[p].done /\ cur[p].failed
        /\ cur[p].level # FatalLevel
        /\ cur[p].lookups = 2 /\ cur[p].written = 2
        /\ cur[p].fired[2] = "LogrusContextHook"

\* The place of a hook in the order initLogHelper adds the hooks.
Rank(h) == CASE h = "LogrusContextHook" -> 1
             [] h = "LogrusOtelHook" -> 2
             [] h = "LogrusOtelShutdownHook" -> 3
Last(q) == q[Len(q)]
\* Goroutine p's Fatal entry fires the trace bridge in this step.
FatalBridgeStep(p) ==
    /\ cur[p].level = FatalLevel
    /\ Len(cur'[p].fired) = Len(cur[p].fired) + 1
    /\ Last(cur'[p].fired) = "LogrusOtelHook"
HookOrderStates ==
    \A p \in Procs :
        /\ \A i, j \in 1..Len(cur[p].fired) :
              i < j => Rank(cur[p].fired[i]) <= Rank(cur[p].fired[j])
        /\ (pc[p] = "Shutdown" /\ drain[p].cont = "fireHooks") =>
              /\ Last(cur[p].fired) = "LogrusOtelShutdownHook"
              /\ "LogrusOtelHook" \in Fired(p) /\ "LogrusContextHook" \in Fired(p)
              /\ cur[p].ctx \in Spans => cur[p].events = 1
        /\ (pc[p] = "exited" /\ exited = "fatal: logrus Exit(1)") =>
              /\ Len(cur[p].drained) = 1
              /\ Len(cur[p].drained[1].log) = Len(cur[p].drained[1].snap)
              /\ Last(cur[p].fired) = "LogrusOtelShutdownHook"
HookOrderSteps ==
    \A p \in Procs :
        FatalBridgeStep(p) =>
            /\ "LogrusContextHook" \in Fired(p)
            /\ "LogrusOtelShutdownHook" \notin Fired(p)
            /\ drain[p] = NoDrain /\ cur[p].drained = <<>>
            /\ cur[p].ctx \in Spans =>
                  LET s == cur[p].ctx IN
                  /\ Len(spanEvents'[s]) = Len(spanEvents[s]) + 1
                  /\ Last(spanEvents'[s]).name = "log"
                  /\ Last(spanEvents'[s]).attrs[3].value =
                        IF cur[p].failed THEN <<"unknown">> ELSE <<"caller.go">>
                  /\ Last(spanEvents'[s]).attrs[4].value =
                        IF cur[p].failed THEN <<"unknown">> ELSE <<"4", "2">>

\* C17: the hooks of an entry fire in the order they were added: call-site
\* annotation, trace bridge, fatal shutdown.  For a Fatal entry the event is
\* recorded on the span of its context, with the file and line the first hook
\* has just set, before the call has begun any Shutdown, and the Shutdown of
\* the third hook has gone through the whole registry before the process
\* ends.
HooksFireInOrderAdded == []HookOrderStates /\ [][HookOrderSteps]_vars
\* A Fatal call made after the setup, with a span and a successful lookup,
\* has recorded its event, called the registered closure and ended the
\* process.
FatalOrderWitness ==
    \E p \in Procs :
        /\ pc[p] = "exited" /\ exited = "fatal: logrus Exit(1)"
        /\ cur[p].ctx \in Spans /\ ~cur[p].failed /\ cur[p].events = 1
        /\ Len(cur[p].drained) = 1 /\ Len(cur[p].drained[1].log) = 1
        /\ \E i \in 1..Len(spanEvents[cur[p].ctx]) :
              spanEvents[cur[p].ctx][i].attrs[3].value = <<"caller.go">>

====
